---- MODULE Spec2Model ----
(***************************************************************************)
(* A model of the request-dispatch core of bocadillo's API class           *)
(* (src/bocadillo/api.py): the error-handler chain, the route table and    *)
(* its name index, the mount table, url_for/redirect, dispatch and         *)
(* __call__.  Paths, patterns and prefixes are sequences of one-character  *)
(* strings, so that str.startswith and slicing are computed, not assumed.  *)
(***************************************************************************)
EXTENDS Integers, Sequences, FiniteSets, TLC

VARIABLES
    routes,          \* API._routes: insertion-ordered dict pattern -> Route
    named_routes,    \* API._named_routes: dict name -> Route
    error_handlers,  \* API._error_handlers: list of (exception class, handler)
    extra_apps,      \* API._extra_apps: insertion-ordered dict prefix -> app
    nsetup,          \* number of registration calls made so far
    last,            \* what the most recent operation did and returned
    common_middleware,   \* the middleware added to API._common_middleware
    routing_middleware,  \* the middleware added to API._routing_middleware
    extensions,      \* API.extensions: the list object bound on the class
    instances,       \* the API instances constructed, in order; the tables
                     \* above are those of the first
    templates,       \* the Templates extension of builtin_extensions
    aliased,         \* the classes templates_dir was set on as a property
    inflight         \* the requests whose route call has begun

middleware_vars == <<common_middleware, routing_middleware>>
class_vars == <<extensions, instances, templates, aliased>>

vars == <<routes, named_routes, error_handlers, extra_apps, nsetup, last,
          middleware_vars, class_vars, inflight>>

\* Bound on the number of registration calls (add_error_handler, route, mount).
MaxSetup == 3

\* Bound on the number of requests whose route call is followed step by step.
MaxInflight == 2

(***************************************************************************)
(* Strings                                                                 *)
(***************************************************************************)
StartsWith(s, p) == Len(p) <= Len(s) /\ SubSeq(s, 1, Len(p)) = p

\* s[n:] of Python, n counted from 0
SliceFrom(s, n) == SubSeq(s, n + 1, Len(s))

STATIC == <<"s", "t", "a", "t", "i", "c">>

\* The request paths tried.
Paths ==
    { <<"/", "a">>, <<"/", "7">>, <<"/", "a", "b">>,
      <<"/", "a", "/", "b">>, <<"/">> \o STATIC \o <<"/", "a">> }

\* The prefixes given to mount().
MountPrefixes == { <<"a">>, <<"/", "a">>, <<"/", "a", "/">> }

\* The applications mounted: an ASGI app (called with the scope alone) and a
\* WSGI app (calling it with the scope alone is a TypeError).
UserApps == {"asgi_app", "wsgi_app"}
StaticApp == "static_app"
IsASGI(app) == app = "asgi_app"

(***************************************************************************)
(* Exceptions                                                              *)
(***************************************************************************)
\* The parent of each exception class ("object" ends the chain).
Parent(cls) ==
    CASE cls = "KeyError" -> "LookupError"
      [] cls = "LookupError" -> "Exception"
      [] cls = "HTTPError" -> "Exception"
      [] cls = "Redirection" -> "Exception"
      [] cls = "AssertionError" -> "Exception"
      [] cls = "Exception" -> "BaseException"
      [] cls = "SystemExit" -> "BaseException"
      [] OTHER -> "object"

RECURSIVE IsSubclass(_, _)
IsSubclass(cls, anc) ==
    IF cls = anc THEN TRUE
    ELSE IF cls = "object" THEN FALSE
    ELSE IsSubclass(Parent(cls), anc)

\* isinstance(exception, err_type)
IsInstance(exception, err_type) == IsSubclass(exception.cls, err_type)

NoExc == [cls |-> "None", status |-> 0, url |-> <<>>, permanent |-> FALSE]
Exc(cls) == [cls |-> cls, status |-> 0, url |-> <<>>, permanent |-> FALSE]
HTTPError(status) ==
    [cls |-> "HTTPError", status |-> status, url |-> <<>>, permanent |-> FALSE]
Redirection(url, permanent) ==
    [cls |-> "Redirection", status |-> 0, url |-> url, permanent |-> permanent]

\* The classes handlers are registered for.
HandlerClasses == {"Exception", "HTTPError", "LookupError", "KeyError"}

(***************************************************************************)
(* Insertion-ordered dicts: a sequence of [key, value] records, at most    *)
(* one per key.                                                            *)
(***************************************************************************)
Keys(d) == {d[i].key : i \in 1..Len(d)}

\* d[key], for a key of d
DictGet(d, key) == d[CHOOSE i \in 1..Len(d) : d[i].key = key].value

\* A store that keeps the old entry of the key beside the new one
DictSetAppend(d, key, value) == Append(d, [key |-> key, value |-> value])

\* A store that takes the key out and puts it back last
DictSetMovingLast(d, key, value) ==
    Append(SelectSeq(d, LAMBDA e : e.key # key), [key |-> key, value |-> value])

\* d[key] = value: an existing key keeps its position, a new one goes last
DictSet(d, key, value) ==
    IF key \in Keys(d)
    THEN [i \in 1..Len(d) |->
            IF d[i].key = key THEN [key |-> key, value |-> value] ELSE d[i]]
    ELSE Append(d, [key |-> key, value |-> value])

(***************************************************************************)
(* The error-handler chain                                                 *)
(***************************************************************************)
\* The built-in handler of HTTPError; a user handler is named by the length
\* of the chain at its registration (1, 2, ...).
handle_http_error == 0

\* A registration that appends instead of inserting at the front
AddErrorHandlerLast(handlers, exception_cls, handler) ==
    handlers \o <<[cls |-> exception_cls, handler |-> handler]>>

\* list.insert(0, (exception_cls, handler))
AddErrorHandlerTo(handlers, exception_cls, handler) ==
    <<[cls |-> exception_cls, handler |-> handler]>> \o handlers

\* A lookup that walks the list from its end
RECURSIVE FindHandlersReversed(_, _)
FindHandlersReversed(handlers, exception) ==
    IF handlers = <<>> THEN <<>>
    ELSE LET n == Len(handlers)
         IN  IF IsInstance(exception, handlers[n].cls)
             THEN <<handlers[n].handler>>
                  \o FindHandlersReversed(SubSeq(handlers, 1, n - 1), exception)
             ELSE FindHandlersReversed(SubSeq(handlers, 1, n - 1), exception)

\* API._find_handlers: the handlers of the entries the exception is an
\* instance of, in the order of the list
RECURSIVE FindHandlersIn(_, _)
FindHandlersIn(handlers, exception) ==
    IF handlers = <<>> THEN <<>>
    ELSE IF IsInstance(exception, Head(handlers).cls)
         THEN <<Head(handlers).handler>> \o FindHandlersIn(Tail(handlers), exception)
         ELSE FindHandlersIn(Tail(handlers), exception)

FindHandlers(exception) == FindHandlersIn(error_handlers, exception)

\* What a handler does to the response: the built-in one sets the status of
\* the HTTPError, every handler leaves its mark.
ApplyHandler(handler, response, exception) ==
    [response EXCEPT
        !.status = IF handler = handle_http_error THEN exception.status ELSE @,
        !.marks = Append(@, [by |-> "error_handler", id |-> handler])]

\* A loop without its break: every handler found is called
CalledWithoutBreak(found) == found

\* The handlers API._handle_exception calls: the loop breaks after the first
CalledHandlers(found) == IF found = <<>> THEN <<>> ELSE <<Head(found)>>

RECURSIVE ApplyHandlers(_, _, _)
ApplyHandlers(called, response, exception) ==
    IF called = <<>> THEN response
    ELSE ApplyHandlers(Tail(called),
                       ApplyHandler(Head(called), response, exception), exception)

\* A loop without its else: an exception no handler was found for is dropped
HandleExceptionNoRaise(response, exception) ==
    LET called == CalledHandlers(FindHandlers(exception))
    IN  [called |-> called,
         response |-> ApplyHandlers(called, response, exception),
         raised |-> NoExc]

\* API._handle_exception: [called, response, raised]
HandleException(response, exception) ==
    LET found == FindHandlers(exception)
        called == CalledHandlers(found)
    IN  [called |-> called,
         response |-> ApplyHandlers(called, response, exception),
         raised |-> IF found = <<>> THEN exception ELSE NoExc]

(***************************************************************************)
(* Route patterns and the path matcher                                     *)
(***************************************************************************)
Lit(c) == [kind |-> "lit", v |-> c]
Param(name, type) == [kind |-> type, v |-> name]

PatA == <<Lit("/"), Lit("a")>>                  \* "/a"
PatInt == <<Lit("/"), Param("n", "int")>>       \* "/{n:int}"
PatStr == <<Lit("/"), Param("x", "str")>>       \* "/{x}"
PatPath == <<Lit("/"), Param("p", "path")>>     \* "/{p:path}"

\* The patterns given to route().
Patterns == {PatA, PatInt, PatStr, PatPath}
NoPattern == <<>>

Digits == <<"0", "1", "2", "3", "4", "5", "6", "7", "8", "9">>
IsDigit(c) == \E d \in 1..Len(Digits) : Digits[d] = c
DigitVal(c) == (CHOOSE d \in 1..Len(Digits) : Digits[d] = c) - 1

RECURSIVE ToInt(_)
ToInt(s) ==
    IF s = <<>> THEN 0
    ELSE ToInt(SubSeq(s, 1, Len(s) - 1)) * 10 + DigitVal(s[Len(s)])

RECURSIVE IntToStr(_)
IntToStr(n) ==
    IF n < 10 THEN <<Digits[n + 1]>>
    ELSE IntToStr(n \div 10) \o <<Digits[(n % 10) + 1]>>

\* A parameter value: a string, or an integer
StrVal(name, s) == [name |-> name, isint |-> FALSE, s |-> s, n |-> 0]
IntVal(name, n) == [name |-> name, isint |-> TRUE, s |-> <<>>, n |-> n]

\* Whether the text may stand for a placeholder of the type
Fits(type, text) ==
    /\ text # <<>>
    /\ CASE type = "int" -> \A i \in 1..Len(text) : IsDigit(text[i])
         [] type = "path" -> TRUE
         [] OTHER -> \A i \in 1..Len(text) : text[i] # "/"

Convert(elem, text) ==
    IF elem.kind = "int" THEN IntVal(elem.v, ToInt(text)) ELSE StrVal(elem.v, text)

NoMatch == [matched |-> FALSE, kwargs |-> <<>>]

\* The match of pattern[i..] against path[j..]; anchored at both ends, a
\* placeholder takes the shortest text that lets the rest match.
RECURSIVE MatchFrom(_, _, _, _)
MatchFrom(pattern, i, path, j) ==
    IF i > Len(pattern)
    THEN IF j > Len(path) THEN [matched |-> TRUE, kwargs |-> <<>>] ELSE NoMatch
    ELSE IF pattern[i].kind = "lit"
    THEN IF j <= Len(path) /\ path[j] = pattern[i].v
         THEN MatchFrom(pattern, i + 1, path, j + 1)
         ELSE NoMatch
    ELSE LET lens == {k \in 1..(Len(path) - j + 1) :
                        /\ Fits(pattern[i].kind, SubSeq(path, j, j + k - 1))
                        /\ MatchFrom(pattern, i + 1, path, j + k).matched}
         IN  IF lens = {} THEN NoMatch
             ELSE LET k == CHOOSE k \in lens : \A m \in lens : k <= m
                      rest == MatchFrom(pattern, i + 1, path, j + k)
                  IN  [matched |-> TRUE,
                       kwargs |-> <<Convert(pattern[i], SubSeq(path, j, j + k - 1))>>
                                  \o rest.kwargs]

\* Route.match(path): the parameters, or no match
Match(pattern, path) == MatchFrom(pattern, 1, path, 1)

(***************************************************************************)
(* The route table, url_for and redirect                                   *)
(***************************************************************************)
NoName == "<None>"
\* The names given to route().
Names == {"home", "item"}

\* constants.ALL_HTTP_METHODS
ALL_HTTP_METHODS == <<"GET", "HEAD", "POST", "PUT", "DELETE", "PATCH", "OPTIONS">>

\* str.upper() on the method names used
Upper(method) ==
    CASE method = "get" -> "GET"
      [] method = "post" -> "POST"
      [] method = "Put" -> "PUT"
      [] OTHER -> method

\* The methods argument of route(): a list, or None
GivenMethods(list) == [given |-> TRUE, list |-> list]
NoMethods == [given |-> FALSE, list |-> <<>>]

\* The lists of methods given to route().
MethodLists == { <<"post">>, <<"GET", "Put">> }

\* The methods a route accepts: all of them when none is given, each
\* upper-cased
AcceptedMethods(methods) ==
    LET list == IF methods.given THEN methods.list ELSE ALL_HTTP_METHODS
    IN  [i \in 1..Len(list) |-> Upper(list[i])]

\* Route(pattern, view, methods, name); id tells one Route object from another
NewRoute(id, pattern, methods, name) ==
    [id |-> id, pattern |-> pattern, methods |-> methods, name |-> name]
NoRoute == NewRoute(0, NoPattern, <<>>, NoName)

\* self._named_routes[name] = route
SetNamed(named, name, route) ==
    [n \in DOMAIN named \cup {name} |-> IF n = name THEN route ELSE named[n]]

\* A lookup in which the last matching pattern wins
RECURSIVE FindLastMatchingRouteIn(_, _)
FindLastMatchingRouteIn(table, path) ==
    IF table = <<>> THEN [pattern |-> NoPattern, kwargs |-> <<>>]
    ELSE LET n == Len(table)
             m == Match(table[n].value.pattern, path)
         IN  IF m.matched
             THEN [pattern |-> table[n].key, kwargs |-> m.kwargs]
             ELSE FindLastMatchingRouteIn(SubSeq(table, 1, n - 1), path)

\* API._find_matching_route over an ordered table: the first pattern, in the
\* order of the dict, that matches
RECURSIVE FindMatchingRouteIn(_, _)
FindMatchingRouteIn(table, path) ==
    IF table = <<>> THEN [pattern |-> NoPattern, kwargs |-> <<>>]
    ELSE LET m == Match(Head(table).value.pattern, path)
         IN  IF m.matched
             THEN [pattern |-> Head(table).key, kwargs |-> m.kwargs]
             ELSE FindMatchingRouteIn(Tail(table), path)

FindMatchingRoute(path) == FindMatchingRouteIn(routes, path)

\* self._routes.get(pattern)
RoutesGet(pattern) ==
    IF pattern \in Keys(routes) THEN DictGet(routes, pattern) ELSE NoRoute

\* Route.url(**kwargs): the pattern with each placeholder replaced by the
\* value given for it; a placeholder with no value is a KeyError
RECURSIVE UrlOf(_, _)
UrlOf(pattern, kwargs) ==
    IF pattern = <<>> THEN [raised |-> NoExc, url |-> <<>>]
    ELSE LET e == Head(pattern)
             rest == UrlOf(Tail(pattern), kwargs)
             given == {i \in 1..Len(kwargs) : kwargs[i].name = e.v}
         IN  IF e.kind = "lit"
             THEN [rest EXCEPT !.url = <<e.v>> \o @]
             ELSE IF given = {} THEN [raised |-> Exc("KeyError"), url |-> <<>>]
             ELSE IF rest.raised # NoExc THEN rest
             ELSE LET v == kwargs[CHOOSE i \in given : TRUE]
                  IN  [rest EXCEPT
                         !.url = (IF v.isint THEN IntToStr(v.n) ELSE v.s) \o @]

NOT_FOUND == 404

\* A lookup that returns no route instead of raising
GetRouteOrNone(name) ==
    [raised |-> NoExc,
     route |-> IF name \in DOMAIN named_routes THEN named_routes[name] ELSE NoRoute]

\* API._get_route_or_404
GetRouteOr404(name) ==
    IF name \in DOMAIN named_routes
    THEN [raised |-> NoExc, route |-> named_routes[name]]
    ELSE [raised |-> HTTPError(NOT_FOUND), route |-> NoRoute]

\* API.url_for: [raised, url]
UrlFor(name, kwargs) ==
    LET r == GetRouteOr404(name)
    IN  IF r.raised # NoExc THEN [raised |-> r.raised, url |-> <<>>]
        ELSE UrlOf(r.route.pattern, kwargs)

\* The keyword arguments given to url_for(): none, or one value for the
\* placeholder of a pattern.
UrlKwargs ==
    { <<>>, <<IntVal("n", 7)>>, <<StrVal("x", <<"7">>)>>,
      <<StrVal("p", <<"a", "/", "b">>)>> }

\* The arguments of redirect(); hasurl is FALSE for url=None
RedirectArgs(name, hasurl, url, permanent, kwargs) ==
    [name |-> name, hasurl |-> hasurl, url |-> url, permanent |-> permanent,
     kwargs |-> kwargs]

\* The calls of redirect() tried beside redirect(name=name): a name with
\* route parameters, a url alone, both, neither.
RedirectCalls ==
    {RedirectArgs("home", FALSE, <<>>, perm, <<IntVal("n", 7)>>) :
        perm \in BOOLEAN}
    \cup {RedirectArgs(NoName, TRUE, <<"/", "b">>, perm, <<>>) : perm \in BOOLEAN}
    \cup {RedirectArgs("home", TRUE, <<"/", "b">>, FALSE, <<>>),
          RedirectArgs(NoName, FALSE, <<>>, FALSE, <<>>)}

\* A redirect in which a url given wins over the name
RedirectUrlFirst(a) ==
    IF a.hasurl THEN Redirection(a.url, a.permanent)
    ELSE IF a.name = NoName THEN Exc("AssertionError")
    ELSE LET u == UrlFor(a.name, a.kwargs)
         IN  IF u.raised # NoExc THEN u.raised
             ELSE Redirection(u.url, a.permanent)

\* API.redirect: the exception it raises (it never returns)
Redirect(a) ==
    IF a.name # NoName
    THEN LET u == UrlFor(a.name, a.kwargs)
         IN  IF u.raised # NoExc THEN u.raised
             ELSE Redirection(u.url, a.permanent)
    ELSE IF ~a.hasurl THEN Exc("AssertionError")
    ELSE Redirection(a.url, a.permanent)

(***************************************************************************)
(* Running a route                                                         *)
(***************************************************************************)
\* Response(request, media): nothing set yet; obj tells the object made by
\* dispatch from the one a Redirection brings
NewResponse == [obj |-> "response", status |-> 0, location |-> <<>>, marks |-> <<>>]

\* Redirection.response: a new response holding the redirect
RedirectResponse(redirection) ==
    [obj |-> "redirection.response",
     status |-> IF redirection.permanent THEN 301 ELSE 302,
     location |-> redirection.url, marks |-> <<>>]

\* A request, and what the hooks and the view of the matched route do with
\* it: the method of the request ("GET" unless given with WithMethod); all
\* of them complete ("none"), or the one of `phase` raises an exception of
\* class cls, or calls redirect(**args).
Behaviour(phase, act, cls, args) ==
    [method |-> "GET", phase |-> phase, act |-> act, cls |-> cls, args |-> args]
\* The same for a request of another method
WithMethod(b, method) == [b EXCEPT !.method = method]
NoArgs == RedirectArgs(NoName, FALSE, <<>>, FALSE, <<>>)
Completes == Behaviour("none", "ok", "None", NoArgs)
Raises(phase, cls) == Behaviour(phase, "raise", cls, NoArgs)
Redirects(phase, args) == Behaviour(phase, "redirect", "None", args)

Behaviours ==
    {Completes}
    \cup {Raises("handler", c) : c \in {"HTTPError", "KeyError", "SystemExit"}}
    \cup {Raises("before", "LookupError"), Raises("after", "KeyError")}
    \cup {Redirects("handler", RedirectArgs(n, FALSE, <<>>, FALSE, <<>>)) :
            n \in {"home", "nope"}}
    \cup {Redirects(ph, RedirectArgs(NoName, TRUE, <<"/", "b">>, TRUE, <<>>)) :
            ph \in {"before", "handler"}}

\* The exception the behaviour raises
Raised(b) ==
    CASE b.act = "raise" ->
            IF b.cls = "HTTPError" THEN HTTPError(403) ELSE Exc(b.cls)
      [] b.act = "redirect" -> Redirect(b.args)
      [] OTHER -> NoExc

Phases == <<"before", "handler", "after">>

RECURSIVE Mark(_, _, _)
Mark(response, phases, id) ==
    IF phases = <<>> THEN response
    ELSE Mark([response EXCEPT !.marks = Append(@, [by |-> Head(phases), id |-> id])],
              Tail(phases), id)

\* request.method in route.methods
Accepts(route, method) == \E i \in 1..Len(route.methods) : route.methods[i] = method

\* A route that runs its hooks and view whatever the method
RunRouteAnyMethod(route, response, b) ==
    LET n == IF b.phase = "none" THEN Len(Phases)
             ELSE CHOOSE i \in 1..Len(Phases) : Phases[i] = b.phase
        ran == SubSeq(Phases, 1, n)
    IN  [trace |-> <<"route">> \o ran,
         response |-> Mark(response, ran, route.id),
         raised |-> Raised(b)]

\* Route.__call__(request, response, **kwargs): HTTPError(405) when the
\* method of the request is not one of the route's, before anything runs;
\* else the before-hooks, the view, the after-hooks, each leaving its mark
\* on the response; an exception ends the run and propagates.
RunRoute(route, response, b) ==
    IF ~Accepts(route, b.method)
    THEN [trace |-> <<"route">>, response |-> response, raised |-> HTTPError(405)]
    ELSE LET n == IF b.phase = "none" THEN Len(Phases)
                  ELSE CHOOSE i \in 1..Len(Phases) : Phases[i] = b.phase
             ran == SubSeq(Phases, 1, n)
         IN  [trace |-> <<"route">> \o ran,
              response |-> Mark(response, ran, route.id),
              raised |-> Raised(b)]

(***************************************************************************)
(* dispatch                                                                *)
(***************************************************************************)
\* What the try block of API.dispatch leaves: the pattern found and its
\* parameters, the route called, what it did, the response, and the
\* exception that leaves the block
Tried(found, route, trace, response, route_raised, raised) ==
    [pattern |-> found.pattern, kwargs |-> found.kwargs, route |-> route.id,
     trace |-> trace, response |-> response, route_raised |-> route_raised,
     raised |-> raised]

\* The inner try of API.dispatch around the route call r: a Redirection is
\* caught, and its response replaces the response
CatchRedirection(found, route, r) ==
    IF IsInstance(r.raised, "Redirection")
    THEN Tried(found, route, r.trace, RedirectResponse(r.raised), r.raised, NoExc)
    ELSE Tried(found, route, r.trace, r.response, r.raised, r.raised)

\* A dispatch that answers an unknown path with an empty response
TryRouteNo404(path, b) ==
    LET found == FindMatchingRoute(path)
        route == RoutesGet(found.pattern)
    IN  IF route = NoRoute
        THEN Tried(found, route, <<>>, NewResponse, NoExc, NoExc)
        ELSE CatchRedirection(found, route, RunRoute(route, NewResponse, b))

\* A dispatch without the inner "except Redirection"
TryRouteNoRedirect(path, b) ==
    LET found == FindMatchingRoute(path)
        route == RoutesGet(found.pattern)
        r == RunRoute(route, NewResponse, b)
    IN  IF route = NoRoute
        THEN Tried(found, route, <<>>, NewResponse, NoExc, HTTPError(404))
        ELSE Tried(found, route, r.trace, r.response, r.raised, r.raised)

\* The try block of API.dispatch
TryRoute(path, b) ==
    LET found == FindMatchingRoute(path)
        route == RoutesGet(found.pattern)
    IN  IF route = NoRoute
        THEN Tried(found, route, <<>>, NewResponse, NoExc, HTTPError(404))
        ELSE CatchRedirection(found, route, RunRoute(route, NewResponse, b))

\* An "except Exception" clause that hands the error handler a new response
ExceptFreshResponse(t) ==
    LET caught == IF IsInstance(t.raised, "Exception") THEN t.raised ELSE NoExc
        h == IF caught # NoExc THEN HandleException(NewResponse, caught)
             ELSE [called |-> <<>>, response |-> t.response, raised |-> t.raised]
    IN  [excepted |-> t.raised, caught |-> caught, called |-> h.called,
         raised |-> h.raised, returned |-> h.raised = NoExc,
         response |-> h.response] @@ t

\* The "except Exception" clause and the return of API.dispatch, after the
\* try block left t: `excepted` leaves the try block, `caught` is what the
\* clause catches of it, `raised` leaves dispatch; the response is returned
\* when nothing does.
Except(t) ==
    LET caught == IF IsInstance(t.raised, "Exception") THEN t.raised ELSE NoExc
        h == IF caught # NoExc THEN HandleException(t.response, caught)
             ELSE [called |-> <<>>, response |-> t.response, raised |-> t.raised]
    IN  [excepted |-> t.raised, caught |-> caught, called |-> h.called,
         raised |-> h.raised, returned |-> h.raised = NoExc,
         response |-> h.response] @@ t

\* API.dispatch
Dispatch(path, b) == Except(TryRoute(path, b))

(***************************************************************************)
(* Mounts and __call__                                                     *)
(***************************************************************************)
\* API.mount on a mount table
MountIn(apps, prefix, app) ==
    DictSet(apps, IF StartsWith(prefix, <<"/">>) THEN prefix ELSE <<"/">> \o prefix,
            app)

NoMount == [found |-> FALSE, prefix |-> <<>>, app |-> "none", path |-> <<>>,
            wrapped |-> FALSE]

\* A lookup that hands the app the whole path
RECURSIVE FindMountKeepingPath(_, _)
FindMountKeepingPath(apps, path) ==
    IF apps = <<>> THEN NoMount
    ELSE IF ~StartsWith(path, Head(apps).key)
    THEN FindMountKeepingPath(Tail(apps), path)
    ELSE [found |-> TRUE, prefix |-> Head(apps).key, app |-> Head(apps).value,
          path |-> path, wrapped |-> ~IsASGI(Head(apps).value)]

\* The loop of API._find_app over a mount table: the first prefix, in the
\* order of the dict, the path starts with; the app gets the path without
\* it, and is wrapped in WsgiToAsgi when calling it with the scope alone
\* is a TypeError.
RECURSIVE FindMountIn(_, _)
FindMountIn(apps, path) ==
    IF apps = <<>> THEN NoMount
    ELSE IF ~StartsWith(path, Head(apps).key) THEN FindMountIn(Tail(apps), path)
    ELSE [found |-> TRUE, prefix |-> Head(apps).key, app |-> Head(apps).value,
          path |-> SliceFrom(path, Len(Head(apps).key)),
          wrapped |-> ~IsASGI(Head(apps).value)]

FindMount(path) == FindMountIn(extra_apps, path)

\* CommonMiddleware(RoutingMiddleware(api)): the common layer and the
\* middleware added to it (the one added last is the innermost), then the
\* routing layer and its middleware, which calls dispatch
Pipeline(path, b) ==
    LET d == Dispatch(path, b)
    IN  [d EXCEPT !.trace = <<"common_middleware">> \o common_middleware
                            \o <<"routing_middleware">> \o routing_middleware
                            \o <<"dispatch">> \o @]

(***************************************************************************)
(* Extensions                                                              *)
(***************************************************************************)
\* The application classes: API and two subclasses of it, siblings of each
\* other
Classes == {"API", "SubAPI", "OtherAPI"}

\* The classes an attribute of an instance of cls is looked up on
Mro(cls) == IF cls = "API" THEN {"API"} ELSE {cls, "API"}

\* builtin_extensions, each registered with API.extend when the package is
\* imported
builtin_extensions == <<"AllowedHosts", "Static", "CORS", "HSTS", "Templates">>

\* The extensions registered by the user.
UserExtensions == {"ext_x", "ext_y"}

\* The keyword arguments of API(...) that the extensions modelled read; each
\* is Absent when not given
Absent == <<>>
None == <<"None">>
True == <<"True">>
Kwargs(static_dir, templates_dir, enable_hsts) ==
    [static_dir |-> static_dir, templates_dir |-> templates_dir,
     enable_hsts |-> enable_hsts]
\* A parameter of init with a default
Get(kwargs, key, default) == IF kwargs[key] = Absent THEN default ELSE kwargs[key]

\* The keyword arguments of the first application, and of the later ones.
InitKwargs == {Kwargs(Absent, Absent, Absent), Kwargs(None, Absent, Absent)}
AppKwargs ==
    {Kwargs(Absent, <<"tpl">>, Absent), Kwargs(None, <<"/", "srv", "tpl">>, True)}

\* os.path.abspath of a directory given as its components
AbsPath(dir) ==
    IF dir # <<>> /\ dir[1] = "/" THEN dir ELSE <<"/", "cwd">> \o dir

\* StaticExtension.init on the mount table of a new application: nothing
\* when static_dir is None, else the static app mounted at static_root
\* ('static' when not given)
StaticInit(kwargs) ==
    IF Get(kwargs, "static_dir", STATIC) = None THEN <<>>
    ELSE MountIn(<<>>, STATIC, StaticApp)

\* What the inits of AllowedHosts (always) and HSTS (on its flag) add to the
\* common middleware of a new application
MiddlewareInit(kwargs) ==
    <<"TrustedHostMiddleware">>
    \o (IF Get(kwargs, "enable_hsts", None) = True
        THEN <<"HTTPSRedirectMiddleware">> ELSE <<>>)

\* Templates.init(api, templates_dir='templates', **kwargs) on the extension
TemplatesInit(api, kwargs) ==
    [api |-> api,
     searchpath |-> <<AbsPath(Get(kwargs, "templates_dir", <<"templates">>))>>]

\* An initialisation that leaves out the extensions whose flag is off
InitEnabledExtensions(list, kwargs) ==
    LET on == SelectSeq(list,
                  LAMBDA e : e # "HSTS" \/ Get(kwargs, "enable_hsts", None) = True)
    IN  [i \in 1..Len(on) |-> [extension |-> on[i], kwargs |-> kwargs]]

\* API._init_extensions(**kwargs): the calls extension.init(self, **kwargs)
\* made, in order
InitExtensions(list, kwargs) ==
    [i \in 1..Len(list) |-> [extension |-> list[i], kwargs |-> kwargs]]

\* cls.extensions, and type(self).extensions for an instance of cls: the one
\* list object created in the body of API. A subclass has no list of its
\* own: the attribute is found on API, and after cls.extensions += ... it is
\* bound on cls to that same object, list += extending in place.
ExtensionsOf(cls) == extensions

\* API(**kwargs) of class cls: the instance
NewApp(cls, list, kwargs) ==
    [cls |-> cls, kwargs |-> kwargs, inits |-> InitExtensions(list, kwargs)]

(***************************************************************************)
(* The state and the operations                                            *)
(***************************************************************************)
\* What an operation leaves to be seen
Seen(op) ==
    [op |-> op, path |-> <<>>, name |-> NoName, mount |-> NoMount,
     scope_path |-> <<>>, trace |-> <<>>, pattern |-> NoPattern, kwargs |-> <<>>,
     route |-> 0, route_raised |-> NoExc, excepted |-> NoExc, caught |-> NoExc,
     called |-> <<>>, raised |-> NoExc, returned |-> FALSE,
     response |-> NewResponse, url |-> <<>>, b |-> Completes, args |-> NoArgs,
     app |-> 0, value |-> <<>>, cls |-> ""]

\* API.__init__ with the built-in extensions: the handler of HTTPError is
\* registered, and the static extension mounts the static app at
\* static_root unless static_dir is None.
Init ==
    /\ routes = <<>>
    /\ named_routes = [n \in {} |-> NoRoute]
    /\ error_handlers = AddErrorHandlerTo(<<>>, "HTTPError", handle_http_error)
    /\ extensions = builtin_extensions
    /\ \E kwargs \in InitKwargs :
          /\ extra_apps = StaticInit(kwargs)
          /\ common_middleware = MiddlewareInit(kwargs)
          /\ instances = <<NewApp("API", builtin_extensions, kwargs)>>
          /\ templates = TemplatesInit(1, kwargs)
    /\ routing_middleware = <<>>
    /\ aliased = {"API"}
    /\ inflight = <<>>
    /\ nsetup = 0
    /\ last = Seen("init")

\* API.add_error_handler(exception_cls, handler)
AddErrorHandler(exception_cls) ==
    /\ nsetup < MaxSetup
    /\ error_handlers' =
         AddErrorHandlerTo(error_handlers, exception_cls, Len(error_handlers))
    /\ nsetup' = nsetup + 1
    /\ last' = Seen("add_error_handler")
    /\ UNCHANGED <<routes, named_routes, extra_apps>>
    /\ UNCHANGED <<middleware_vars, class_vars, inflight>>

\* The id of the next Route object: one more than the latest one's, which the
\* table always holds
NextRouteId ==
    1 + Cardinality({i \in 1..MaxSetup :
                        \E j \in 1..Len(routes) : routes[j].value.id >= i})

\* API.route(pattern, methods=methods, name=name)(view)
RouteWith(pattern, methods, name) ==
    /\ nsetup < MaxSetup
    /\ LET route == NewRoute(NextRouteId, pattern, AcceptedMethods(methods), name)
       IN  /\ routes' = DictSet(routes, pattern, route)
           /\ named_routes' = IF name # NoName
                              THEN SetNamed(named_routes, name, route)
                              ELSE named_routes
    /\ nsetup' = nsetup + 1
    /\ last' = Seen("route")
    /\ UNCHANGED <<error_handlers, extra_apps>>
    /\ UNCHANGED <<middleware_vars, class_vars, inflight>>

\* API.route(pattern, name=name)(view)
Route(pattern, name) == RouteWith(pattern, NoMethods, name)

\* API.mount(prefix, app)
Mount(prefix, app) ==
    /\ nsetup < MaxSetup
    /\ extra_apps' = MountIn(extra_apps, prefix, app)
    /\ nsetup' = nsetup + 1
    /\ last' = Seen("mount")
    /\ UNCHANGED <<routes, named_routes, error_handlers>>
    /\ UNCHANGED <<middleware_vars, class_vars, inflight>>

\* The middleware classes given to add_middleware(): one with a dispatch
\* attribute, one without.
Middleware == {"routing_mw", "common_mw"}

\* API._is_routing_middleware: hasattr(middleware_cls, 'dispatch')
IsRoutingMiddleware(middleware_cls) == middleware_cls = "routing_mw"

\* API.add_middleware(middleware_cls)
AddMiddleware(middleware_cls) ==
    /\ nsetup < MaxSetup
    /\ IF IsRoutingMiddleware(middleware_cls)
       THEN /\ routing_middleware' = Append(routing_middleware, middleware_cls)
            /\ UNCHANGED common_middleware
       ELSE /\ common_middleware' = Append(common_middleware, middleware_cls)
            /\ UNCHANGED routing_middleware
    /\ nsetup' = nsetup + 1
    /\ last' = Seen("add_middleware")
    /\ UNCHANGED <<routes, named_routes, error_handlers, extra_apps>>
    /\ UNCHANGED <<class_vars, inflight>>

\* A lookup that tries the routes first and the mounts for what is left
FindAppAfterRoutes(path, b) ==
    LET m == FindMount(path)
        d == Pipeline(path, b)
    IN  IF m.found /\ d.pattern = NoPattern
        THEN [path |-> path, b |-> b, mount |-> m, scope_path |-> m.path]
             @@ Seen("call")
        ELSE [path |-> path, b |-> b, scope_path |-> path] @@ d @@ Seen("call")

\* API._find_app(scope): the request goes to the first mounted app whose
\* prefix the path starts with, scope['path'] cut; to the middleware
\* pipeline, scope untouched, when there is none.
FindApp(path, b) ==
    LET m == FindMount(path)
    IN  IF m.found
        THEN [path |-> path, b |-> b, mount |-> m, scope_path |-> m.path]
             @@ Seen("call")
        ELSE [path |-> path, b |-> b, scope_path |-> path]
             @@ Pipeline(path, b) @@ Seen("call")

\* A call that keeps the WsgiToAsgi wrapper it made in the mount table
CallKeepingWrapper(path, b) ==
    /\ last' = FindApp(path, b)
    /\ LET m == FindMount(path)
       IN  extra_apps' = IF m.found /\ m.wrapped
                         THEN DictSet(extra_apps, m.prefix, "asgi_app")
                         ELSE extra_apps
    /\ UNCHANGED <<routes, named_routes, error_handlers, nsetup>>
    /\ UNCHANGED <<middleware_vars, class_vars, inflight>>

\* API.__call__(scope) for a request of the path, the matched route (if one
\* runs) behaving as b
Call(path, b) ==
    /\ last' = FindApp(path, b)
    /\ UNCHANGED <<routes, named_routes, error_handlers, extra_apps, nsetup>>
    /\ UNCHANGED <<middleware_vars, class_vars, inflight>>

\* API.url_for(name, **kwargs)
CallUrlFor(name, kwargs) ==
    /\ LET u == UrlFor(name, kwargs)
       IN  last' = [Seen("url_for") EXCEPT
                       !.name = name, !.kwargs = kwargs,
                       !.raised = u.raised, !.url = u.url]
    /\ UNCHANGED <<routes, named_routes, error_handlers, extra_apps, nsetup>>
    /\ UNCHANGED <<middleware_vars, class_vars, inflight>>

\* API.redirect(name=, url=, permanent=, **kwargs)
CallRedirectWith(a) ==
    /\ last' = [Seen("redirect") EXCEPT
                   !.name = a.name, !.args = a, !.raised = Redirect(a)]
    /\ UNCHANGED <<routes, named_routes, error_handlers, extra_apps, nsetup>>
    /\ UNCHANGED <<middleware_vars, class_vars, inflight>>

\* API.redirect(name=name)
CallRedirect(name) == CallRedirectWith(RedirectArgs(name, FALSE, <<>>, FALSE, <<>>))

\* API.extend(extension) called on the class cls: cls.extensions += ...
\* extends in place the list the attribute resolves to
Extend(cls, extension) ==
    /\ nsetup < MaxSetup
    /\ extensions' = Append(ExtensionsOf(cls), extension)
    /\ nsetup' = nsetup + 1
    /\ last' = [Seen("extend") EXCEPT !.cls = cls, !.value = <<extension>>]
    /\ UNCHANGED <<routes, named_routes, error_handlers, extra_apps>>
    /\ UNCHANGED <<middleware_vars, instances, templates, aliased, inflight>>

\* cls(**kwargs): a further instance is constructed; the init of Templates
\* sets the extension up for it and puts the templates_dir property on cls
Construct(cls, kwargs) ==
    /\ nsetup < MaxSetup
    /\ instances' = Append(instances, NewApp(cls, ExtensionsOf(cls), kwargs))
    /\ templates' = TemplatesInit(Len(instances) + 1, kwargs)
    /\ aliased' = aliased \cup {cls}
    /\ nsetup' = nsetup + 1
    /\ last' = [Seen("construct") EXCEPT !.app = Len(instances) + 1]
    /\ UNCHANGED <<routes, named_routes, error_handlers, extra_apps>>
    /\ UNCHANGED <<middleware_vars, extensions, inflight>>

\* The directories templates_dir is set to.
TemplatesDirs == { <<"other">>, <<"/", "srv", "tpl">> }

\* A property that reads the directory the instance was constructed with
OwnTemplatesDir(app) ==
    [raised |-> NoExc,
     value |-> AbsPath(Get(instances[app].kwargs, "templates_dir", <<"templates">>))]

\* instance.templates_dir: the property alias_property put on the class
\* returns the templates_dir of the extension
ReadProperty(app) ==
    IF Mro(instances[app].cls) \cap aliased = {}
    THEN [raised |-> Exc("AttributeError"), value |-> <<>>]
    ELSE [raised |-> NoExc, value |-> templates.searchpath[1]]

\* value = instances[app].templates_dir
ReadTemplatesDir(app) ==
    /\ LET r == ReadProperty(app)
       IN  last' = [Seen("read_templates_dir") EXCEPT
                       !.app = app, !.raised = r.raised, !.value = r.value]
    /\ UNCHANGED <<routes, named_routes, error_handlers, extra_apps, nsetup>>
    /\ UNCHANGED <<middleware_vars, class_vars, inflight>>

\* instances[app].templates_dir = dir: the setter of the property sets the
\* templates_dir of the extension
WriteTemplatesDir(app, dir) ==
    /\ Mro(instances[app].cls) \cap aliased # {}
    /\ templates' = [templates EXCEPT !.searchpath = <<AbsPath(dir)>>]
    /\ last' = [Seen("write_templates_dir") EXCEPT !.app = app, !.value = dir]
    /\ UNCHANGED <<routes, named_routes, error_handlers, extra_apps, nsetup>>
    /\ UNCHANGED <<middleware_vars, extensions, instances, aliased, inflight>>

(***************************************************************************)
(* A route call step by step: each hook and the view is a coroutine that   *)
(* begins, may be suspended while other requests run, and ends or raises.  *)
(***************************************************************************)
\* The numbers (before-hooks, after-hooks) of the routes called.
HookCounts == { <<0, 0>>, <<2, 1>>, <<1, 2>> }

\* The callables of a route with nb before-hooks and na after-hooks, in the
\* order Route.__call__ awaits them: the hooks in the order of registration
Plan(nb, na) ==
    [i \in 1..nb |-> [phase |-> "before", n |-> i]]
    \o <<[phase |-> "handler", n |-> 1]>>
    \o [i \in 1..na |-> [phase |-> "after", n |-> i]]

\* The callables of the request that have begun, and those that have ended
\* (returned or raised)
Begun(req) == Cardinality({i \in 1..Len(req.log) : req.log[i].ev = "begin"})
Ended(req) == Cardinality({i \in 1..Len(req.log) : req.log[i].ev # "begin"})
HasRaised(req) == \E i \in 1..Len(req.log) : req.log[i].ev = "raise"

\* A route call that begins its next callable while one is still running
MayBeginAtOnce(req) == ~HasRaised(req) /\ Begun(req) < Len(req.plan)

\* The next callable is awaited when the one before it has returned
MayBegin(req) ==
    ~HasRaised(req) /\ Begun(req) = Ended(req) /\ Begun(req) < Len(req.plan)

Event(callable, ev) == [phase |-> callable.phase, n |-> callable.n, ev |-> ev]

\* dispatch awaits route(request, response, **kwargs) for one more request,
\* whose route has nb before-hooks and na after-hooks
BeginRoute(nb, na) ==
    /\ Len(inflight) < MaxInflight
    /\ inflight' = Append(inflight, [plan |-> Plan(nb, na), log |-> <<>>])
    /\ UNCHANGED <<routes, named_routes, error_handlers, extra_apps, nsetup, last>>
    /\ UNCHANGED <<middleware_vars, class_vars>>

\* The route call of request r begins its next callable
BeginCallable(r) ==
    /\ MayBegin(inflight[r])
    /\ inflight' = [inflight EXCEPT ![r].log =
                       Append(@, Event(inflight[r].plan[Begun(inflight[r]) + 1], "begin"))]
    /\ UNCHANGED <<routes, named_routes, error_handlers, extra_apps, nsetup, last>>
    /\ UNCHANGED <<middleware_vars, class_vars>>

\* The running callable of request r returns ("end") or raises ("raise")
EndCallable(r, ev) ==
    /\ Begun(inflight[r]) > Ended(inflight[r])
    /\ inflight' = [inflight EXCEPT ![r].log =
                       Append(@, Event(inflight[r].plan[Ended(inflight[r]) + 1], ev))]
    /\ UNCHANGED <<routes, named_routes, error_handlers, extra_apps, nsetup, last>>
    /\ UNCHANGED <<middleware_vars, class_vars>>

(***************************************************************************)
(* Specifications.  Each draws the registrations and requests of one       *)
(* concern from the sets above; all share the operations and the bound.    *)
(***************************************************************************)
\* The error-handler chain and dispatch: handlers of any class in any order,
\* a specific and a catch-all route, every behaviour of the matched route.
NextErrors ==
    \/ \E c \in HandlerClasses : AddErrorHandler(c)
    \/ \E p \in {PatA, PatPath} : Route(p, NoName)
    \/ \E p \in Paths, b \in Behaviours : Call(p, b)

SpecErrors == Init /\ [][NextErrors]_vars

\* The route table and the name index: every pattern, named or not, in any
\* order; lookups by path and by name.
NextRoutes ==
    \/ \E p \in Patterns, n \in {NoName, "home"} : Route(p, n)
    \/ \E p \in Paths : Call(p, Completes)
    \/ \E n \in Names \cup {"nope"}, k \in UrlKwargs : CallUrlFor(n, k)
    \/ \E n \in Names \cup {"nope"} : CallRedirect(n)
    \/ \E a \in RedirectCalls : CallRedirectWith(a)

SpecRoutes == Init /\ [][NextRoutes]_vars

\* The requests made of routes with methods: GET and POST, the route
\* completing or its before-hook raising.
MethodBehaviours ==
    {WithMethod(b, m) : b \in {Completes, Raises("before", "LookupError")},
                        m \in {"GET", "POST"}}

\* Methods: a route for all methods or for those of a list, replaced or
\* shadowed by another, and requests of several methods.
NextMethods ==
    \/ \E m \in {NoMethods} \cup {GivenMethods(l) : l \in MethodLists} :
          RouteWith(PatA, m, NoName)
    \/ Route(PatPath, NoName)
    \/ AddErrorHandler("Exception")
    \/ \E p \in {<<"/", "a">>, <<"/", "a", "b">>}, b \in MethodBehaviours :
          Call(p, b)

SpecMethods == Init /\ [][NextMethods]_vars

\* Extensions: registrations on the classes, further instances, and the
\* aliased templates_dir read and written through any instance.
NextExtensions ==
    \/ \E c \in Classes, e \in UserExtensions : Extend(c, e)
    \/ \E c \in Classes, k \in AppKwargs : Construct(c, k)
    \/ \E i \in 1..Len(instances) : ReadTemplatesDir(i)
    \/ \E i \in 1..Len(instances), d \in TemplatesDirs : WriteTemplatesDir(i, d)

SpecExtensions == Init /\ [][NextExtensions]_vars

\* Route calls in flight: the hooks and views of several requests taking
\* turns.
NextInflight ==
    \/ \E c \in HookCounts : BeginRoute(c[1], c[2])
    \/ \E r \in 1..Len(inflight) : BeginCallable(r)
    \/ \E r \in 1..Len(inflight), ev \in {"end", "raise"} : EndCallable(r, ev)

SpecInflight == Init /\ [][NextInflight]_vars

\* What the route does with the requests made beside mounts: it completes,
\* raises, or redirects.
MountBehaviours ==
    {Completes, Raises("handler", "KeyError"),
     Redirects("handler", RedirectArgs(NoName, TRUE, <<"/", "b">>, FALSE, <<>>))}

\* Mounts: every prefix and app in any order, beside routes of the mounting
\* application.
NextMounts ==
    \/ \E p \in MountPrefixes, a \in UserApps : Mount(p, a)
    \/ AddErrorHandler("Exception")
    \/ \E m \in Middleware : AddMiddleware(m)
    \/ \E p \in {PatA, PatPath} : Route(p, NoName)
    \/ \E p \in Paths, b \in MountBehaviours : Call(p, b)

SpecMounts == Init /\ [][NextMounts]_vars

(***************************************************************************)
(* Properties of the error-handler chain                                   *)
(***************************************************************************)
\* The entries of the chain the exception is an instance of
Matching(exception) ==
    {i \in 1..Len(error_handlers) : IsInstance(exception, error_handlers[i].cls)}

\* The handler registered last among those entries (handlers are numbered in
\* the order of their registration)
LatestRegistered(exception) ==
    LET i == CHOOSE i \in Matching(exception) :
                \A j \in Matching(exception) :
                    error_handlers[j].handler <= error_handlers[i].handler
    IN  error_handlers[i].handler

IsRequest == last.op = "call" /\ ~last.mount.found

\* C1: the handler called for an exception caught during dispatch is the one
\* registered last among the entries whose class is the exception's class or
\* an ancestor of it.
C1_LatestMatchingHandlerIsCalled ==
    (IsRequest /\ last.caught # NoExc /\ Matching(last.caught) # {})
        => last.called = <<LatestRegistered(last.caught)>>

\* A handler for LookupError, then one for Exception, then a KeyError raised
\* by the route: the handler for Exception was called.
C1_Witness ==
    /\ IsRequest
    /\ last.caught.cls = "KeyError"
    /\ \E i, j \in 1..Len(error_handlers) :
          /\ error_handlers[i].cls = "Exception"
          /\ error_handlers[j].cls = "LookupError"
          /\ error_handlers[j].handler < error_handlers[i].handler
          /\ last.called = <<error_handlers[i].handler>>

\* C2: at most one error handler is called per request, however many entries
\* of the chain match the exception.
C2_AtMostOneHandlerCalled ==
    last.op = "call" => Len(last.called) <= 1

\* Three entries match the caught exception and one handler was called.
C2_Witness ==
    /\ IsRequest
    /\ Cardinality(Matching(last.caught)) >= 3
    /\ Len(last.called) = 1

\* C3: when no entry of the chain matches the exception that leaves the try
\* block of dispatch, no handler is called, that exception leaves dispatch
\* and no response is returned.
C3_UnmatchedExceptionPropagates ==
    (IsRequest /\ last.excepted # NoExc /\ Matching(last.excepted) = {})
        => /\ last.called = <<>>
           /\ last.raised = last.excepted
           /\ ~last.returned

\* A KeyError raised by the route with user handlers registered, none of
\* which matches: it left dispatch.
C3_Witness ==
    /\ IsRequest
    /\ Len(error_handlers) >= 2
    /\ last.excepted.cls = "KeyError"
    /\ last.raised = last.excepted
    /\ last.called = <<>>

\* C4: the built-in handler of HTTPError is in the chain, as its last entry
\* and nowhere else, and it is called only for an exception that no
\* user-registered entry matches.
C4_BuiltinHandlerIsLast ==
    /\ error_handlers # <<>>
    /\ error_handlers[Len(error_handlers)] =
         [cls |-> "HTTPError", handler |-> handle_http_error]
    /\ \A i \in 1..(Len(error_handlers) - 1) :
          error_handlers[i].handler # handle_http_error
    /\ (last.op = "call" /\ last.called = <<handle_http_error>>)
         => Matching(last.caught) = {Len(error_handlers)}

\* With two user handlers registered, none for the error's kind, the
\* built-in handler handled a 404.
C4_Witness ==
    /\ Len(error_handlers) >= 3
    /\ IsRequest
    /\ last.called = <<handle_http_error>>
    /\ last.response.status = NOT_FOUND

(***************************************************************************)
(* Properties of route lookup and dispatch                                 *)
(***************************************************************************)
\* The positions in the route table of the patterns that match the path
MatchingRoutes(path) ==
    {i \in 1..Len(routes) : Match(routes[i].key, path).matched}

\* C5: route lookup returns the earliest pattern of the table, in insertion
\* order, that matches the path, with the parameters of that match, and
\* (None, {}) when no pattern matches.
C5_FirstMatchInInsertionOrder ==
    IsRequest =>
        LET ms == MatchingRoutes(last.path)
        IN  IF ms = {}
            THEN last.pattern = NoPattern /\ last.kwargs = <<>>
            ELSE LET i == CHOOSE i \in ms : \A j \in ms : i <= j
                 IN  /\ last.pattern = routes[i].key
                     /\ last.kwargs = Match(routes[i].key, last.path).kwargs

\* The catch-all pattern was registered before "/a", and "/a" was requested:
\* the catch-all was found.
C5_Witness ==
    /\ IsRequest
    /\ \E i, j \in 1..Len(routes) :
          /\ i < j
          /\ routes[i].value.id < routes[j].value.id
          /\ routes[i].key = PatPath
          /\ routes[j].key = PatA
          /\ Match(PatA, last.path).matched
    /\ last.pattern = PatPath

RouteEvents == {"route", "before", "handler", "after"}

\* C6: a request whose path matches no pattern raises HTTPError(404), which
\* is given to the error-handler chain, and runs no route, hook or view.
C6_UnknownPathIs404 ==
    (IsRequest /\ MatchingRoutes(last.path) = {})
        => /\ last.caught = HTTPError(NOT_FOUND)
           /\ last.called = <<LatestRegistered(last.caught)>>
           /\ last.route = NoRoute.id
           /\ \A i \in 1..Len(last.trace) : last.trace[i] \notin RouteEvents

\* With a route registered, a path it does not match was requested and the
\* built-in handler made a 404 response of it.
C6_Witness ==
    /\ IsRequest
    /\ routes # <<>>
    /\ MatchingRoutes(last.path) = {}
    /\ last.returned
    /\ last.response.status = NOT_FOUND

\* C7: a Redirection raised by the matched route is caught before the
\* error-handler chain is consulted: no handler is called, whatever the
\* chain holds, and dispatch returns the response of the Redirection.
C7_RedirectionBypassesHandlers ==
    (IsRequest /\ last.route_raised.cls = "Redirection")
        => /\ last.called = <<>>
           /\ last.caught = NoExc
           /\ last.returned
           /\ last.response = RedirectResponse(last.route_raised)

\* A handler for Exception is registered and the route redirected.
C7_Witness ==
    /\ IsRequest
    /\ \E i \in 1..Len(error_handlers) : error_handlers[i].cls = "Exception"
    /\ last.route_raised.cls = "Redirection"
    /\ last.returned
    /\ last.response.location = <<"/", "b">>

\* C8: url_for(name) and redirect(name=name) with a name (a string; None is
\* no name) that is not in the name index raise HTTPError(404), and leave
\* the route table and the name index as they were.
C8_UnknownNameIs404 ==
    [][(/\ last'.op \in {"url_for", "redirect"}
        /\ last'.name # NoName
        /\ last'.name \notin DOMAIN named_routes)
         => /\ last'.raised = HTTPError(NOT_FOUND)
            /\ last'.url = <<>>
            /\ routes' = routes
            /\ named_routes' = named_routes]_vars

\* With a name in the index, redirect was called with another name and
\* raised a 404.
C8_Witness ==
    /\ last.op = "redirect"
    /\ DOMAIN named_routes # {}
    /\ last.name \notin DOMAIN named_routes
    /\ last.raised.cls = "HTTPError"
    /\ last.raised.status = NOT_FOUND

(***************************************************************************)
(* Properties of mounts                                                    *)
(***************************************************************************)
\* The positions in the mount table of the prefixes the path starts with
MatchingMounts(path) ==
    {i \in 1..Len(extra_apps) : StartsWith(path, extra_apps[i].key)}

\* What the app mounted at position i gets of the request
Delivered(i) ==
    /\ last.mount.found
    /\ last.mount.prefix = extra_apps[i].key
    /\ last.mount.app = extra_apps[i].value
    /\ last.scope_path = SliceFrom(last.path, Len(extra_apps[i].key))
    /\ last.path = extra_apps[i].key \o last.scope_path

\* C9, as claimed: for every mount whose prefix the path starts with, the
\* app of that mount receives the request, with that prefix removed.
C9_EveryMatchingMountReceives ==
    last.op = "call" => \A i \in MatchingMounts(last.path) : Delivered(i)

\* C9, amended: the first mount, in the order of mounting, whose prefix the
\* path starts with receives the request, with exactly that prefix removed.
C9_FirstMatchingMountReceives ==
    last.op = "call" =>
        \A i \in MatchingMounts(last.path) :
            (\A j \in MatchingMounts(last.path) : i <= j) => Delivered(i)

\* Two mounts whose prefixes both start the path: the earlier one received
\* the request.
C9_Witness ==
    /\ last.op = "call"
    /\ Cardinality(MatchingMounts(last.path)) >= 2
    /\ \E i \in MatchingMounts(last.path) : Delivered(i) /\ last.scope_path # <<>>

\* C10: a request whose path starts with a mounted prefix reaches no
\* middleware, route lookup, route or error handler of the mounting
\* application; any other request goes to the middleware pipeline with its
\* path unchanged.
C10_MountLookupComesFirst ==
    last.op = "call" =>
        IF MatchingMounts(last.path) # {}
        THEN /\ last.mount.found
             /\ last.trace = <<>>
             /\ last.pattern = NoPattern
             /\ last.route = NoRoute.id
             /\ last.called = <<>>
        ELSE /\ ~last.mount.found
             /\ last.trace # <<>>
             /\ last.trace[1] = "common_middleware"
             /\ last.scope_path = last.path

\* A route of the mounting application matches the path, which starts with
\* a mounted prefix: the request went to the mounted app.
C10_Witness ==
    /\ last.op = "call"
    /\ MatchingRoutes(last.path) # {}
    /\ last.mount.found
    /\ last.mount.app \in UserApps
    /\ last.trace = <<>>

(***************************************************************************)
(* Properties of route registration                                        *)
(***************************************************************************)
\* The positions of the route table whose route carries the name
NamedAs(name) == {i \in 1..Len(routes) : routes[i].value.name = name}

\* C11: no two routes held in the route table carry the same name.
C11_RouteNamesAreUnique ==
    \A n \in Names : Cardinality(NamedAs(n)) <= 1

\* The placeholders of a pattern, in order
Placeholders(pattern) == SelectSeq(pattern, LAMBDA e : e.kind # "lit")

\* The keyword arguments give each placeholder of the pattern, and nothing
\* else, a value of its type (for a string: one the placeholder may stand for)
ValidKwargs(pattern, kwargs) ==
    LET params == Placeholders(pattern)
    IN  /\ Len(kwargs) = Len(params)
        /\ \A i \in 1..Len(params) :
              /\ kwargs[i].name = params[i].v
              /\ kwargs[i].isint <=> params[i].kind = "int"
              /\ ~kwargs[i].isint => Fits(params[i].kind, kwargs[i].s)

\* url_for was called with the name of exactly one route of the table and
\* valid parameters for it
UrlForValid ==
    /\ last.op = "url_for"
    /\ last.name \in DOMAIN named_routes
    /\ Cardinality(NamedAs(last.name)) = 1
    /\ ValidKwargs(named_routes[last.name].pattern, last.kwargs)

\* find(url_for(name, params)) is the pattern of the route and the parameters
RoundTrips ==
    /\ last.raised = NoExc
    /\ FindMatchingRoute(last.url) =
          [pattern |-> named_routes[last.name].pattern, kwargs |-> last.kwargs]

\* No pattern earlier in the route table than the given one matches the url
NotShadowed(pattern, url) ==
    \A i, j \in 1..Len(routes) :
        (i < j /\ routes[j].key = pattern)
            => ~Match(routes[i].value.pattern, url).matched

\* C12 as stated: for a route registered with a unique name and valid
\* parameters, find(url_for(name, params)) returns the route's pattern and
\* the parameters, whatever other routes are registered and in whatever order.
C12_RoundTripWhateverTheOrder == UrlForValid => RoundTrips

\* C12: for a route registered with a unique name and valid parameters,
\* find(url_for(name, params)) returns the route's pattern and the
\* parameters, provided no pattern earlier in the route table matches the
\* generated url.
C12_RoundTripUnlessShadowed ==
    (UrlForValid /\ NotShadowed(named_routes[last.name].pattern, last.url))
        => RoundTrips

\* "/{n:int}" named "home" is followed in the table by a pattern that matches
\* "/7" as well; url_for("home", n=7) is "/7", which finds "/{n:int}", n = 7.
C12_Witness ==
    /\ UrlForValid
    /\ named_routes[last.name].pattern = PatInt
    /\ last.url = <<"/", "7">>
    /\ \E i, j \in 1..Len(routes) :
          /\ i < j
          /\ routes[i].key = PatInt
          /\ Match(routes[j].value.pattern, last.url).matched
    /\ FindMatchingRoute(last.url).kwargs = <<IntVal("n", 7)>>

\* The positions of a route table that hold the pattern
HeldAt(table, pattern) == {i \in 1..Len(table) : table[i].key = pattern}

\* A step that changes the route table is the registration of one pattern p:
\* afterwards the table holds for p the Route object just created (no route
\* held before is as recent), and for every other pattern what it held.
IsRegistrationOf(p) ==
    /\ \A i \in HeldAt(routes', p) :
          /\ routes'[i].value.pattern = p
          /\ \A j \in 1..Len(routes) : routes[j].value.id < routes'[i].value.id
    /\ \A q \in Keys(routes') \ {p} :
          /\ q \in Keys(routes)
          /\ DictGet(routes', q) = DictGet(routes, q)
    /\ Keys(routes) \subseteq Keys(routes')

\* C13: the route table holds at most one route per pattern, the route of the
\* most recent registration under that pattern (a registration replaces what
\* the table held for its pattern and nothing else), and dispatch of a
\* matching path runs the route the table holds for the pattern found.
C13_LatestRoutePerPattern ==
    [][/\ \A p \in Keys(routes') : Cardinality(HeldAt(routes', p)) = 1
       /\ routes' # routes => \E p \in Keys(routes') : IsRegistrationOf(p)
       /\ (last'.op = "call" /\ last'.route # NoRoute.id) =>
             \E i \in 1..Len(routes') :
                 /\ routes'[i].key = last'.pattern
                 /\ routes'[i].value.id = last'.route
                 /\ Match(last'.pattern, last'.path).matched]_vars

\* One pattern registered three times: the table holds one route, the third,
\* and it ran.
C13_Witness ==
    /\ last.op = "call"
    /\ Len(routes) = 1
    /\ routes[1].value.id = 3
    /\ last.route = 3
    /\ "route" \in {last.trace[i] : i \in 1..Len(last.trace)}

(***************************************************************************)
(* Properties of a route run                                               *)
(***************************************************************************)
\* The request found a route of the table, which was called
RouteCalled == IsRequest /\ last.route # NoRoute.id

\* The hooks and the view that ran, in order
PhasesRun == SelectSeq(last.trace, LAMBDA e : e \in {"before", "handler", "after"})

C17_RedirectAlwaysRaises ==
    last.op = "redirect" =>
        LET a == last.args
            u == UrlFor(a.name, a.kwargs)
        IN  /\ last.raised # NoExc
            /\ ~last.returned
            /\ (a.name \in DOMAIN named_routes /\ u.raised = NoExc)
                  => last.raised = Redirection(u.url, a.permanent)
            /\ (a.name = NoName /\ a.hasurl)
                  => last.raised = Redirection(a.url, a.permanent)
            /\ (a.name = NoName /\ ~a.hasurl)
                  => ~IsInstance(last.raised, "Redirection")

\* redirect(name="home", url="/b") with "home" naming "/a": the Redirection
\* carries "/a", not "/b".
C17_Witness ==
    /\ last.op = "redirect"
    /\ last.args.name = "home"
    /\ last.args.hasurl
    /\ "home" \in DOMAIN named_routes
    /\ named_routes["home"].pattern = PatA
    /\ last.raised = Redirection(<<"/", "a">>, FALSE)
    /\ last.args.url # <<"/", "a">>

\* A hook or the view of the called route raised an exception that is an
\* instance of the class of some chain entry
RouteRaisedMatched ==
    /\ RouteCalled
    /\ PhasesRun # <<>>
    /\ last.route_raised # NoExc
    /\ Matching(last.route_raised) # {}

\* The phases up to the one that raises
PhasesUpTo(phase) ==
    SubSeq(Phases, 1, CHOOSE i \in 1..Len(Phases) : Phases[i] = phase)

\* The phases after the raising one did not run, and dispatch returned the
\* response object it made, with the marks of the phases that ran followed by
\* the mark of one error handler, the latest registered matching one.
SameResponseReturned ==
    /\ PhasesRun = PhasesUpTo(last.b.phase)
    /\ last.returned
    /\ last.response.obj = NewResponse.obj
    /\ Len(last.called) = 1
    /\ last.response.marks =
          [i \in 1..Len(PhasesRun) |-> [by |-> PhasesRun[i], id |-> last.route]]
          \o <<[by |-> "error_handler", id |-> LatestRegistered(last.route_raised)]>>

\* C18 as stated: when a hook or the view raises an exception that some chain
\* entry matches, the remaining phases are not run and dispatch returns the
\* response object passed to them, with their mutations and that of the one
\* resolved error handler.
C18_AnyMatchedException == RouteRaisedMatched => SameResponseReturned

\* C18: when a hook or the view raises an exception other than a Redirection
\* that some chain entry matches, the remaining phases are not run and
\* dispatch returns the response object passed to them, with their mutations
\* and that of the one resolved error handler.
C18_MatchedErrorKeepsResponse ==
    (RouteRaisedMatched /\ ~IsInstance(last.route_raised, "Redirection"))
        => SameResponseReturned

\* The view raised a KeyError after the before-hook ran; a handler registered
\* by the user took it: the response bears the marks of the before-hook, of
\* the view and of that handler, and not of the after-hook.
C18_Witness ==
    /\ RouteRaisedMatched
    /\ last.b.phase = "handler"
    /\ last.route_raised.cls = "KeyError"
    /\ last.called # <<handle_http_error>>
    /\ Len(last.response.marks) = 3
    /\ last.response.marks[1].by = "before"
    /\ last.response.marks[2].by = "handler"
    /\ last.response.marks[3].by = "error_handler"
    /\ last.returned

(***************************************************************************)
(* Requests and the shared structures                                      *)
(***************************************************************************)
\* C19: a request, whatever its outcome (response, handled error, redirect,
\* unhandled exception, delegation to a mounted app), leaves the route table,
\* the name index, the error-handler chain, the mount table and the
\* middleware stacks as they were, and what it gets is determined by them
\* and by the request alone, whatever requests were made before it.
C19_RequestsLeaveTablesUnchanged ==
    [][last'.op = "call" =>
          /\ UNCHANGED <<routes, named_routes, error_handlers, extra_apps>>
          /\ UNCHANGED <<common_middleware, routing_middleware>>
          /\ \A seen \in {last'} : seen = FindApp(seen.path, seen.b)]_vars

\* A request delegated to a mounted WSGI app, wrapped for the call: the mount
\* table still holds the app as it was mounted.
C19_Witness ==
    /\ last.op = "call"
    /\ last.mount.found
    /\ last.mount.wrapped
    /\ last.mount.app = "wsgi_app"
    /\ DictGet(extra_apps, last.mount.prefix) = "wsgi_app"
    /\ routes # <<>>

(***************************************************************************)
(* Properties of the extensions                                            *)
(***************************************************************************)
\* A step that constructs an instance
Constructs == Len(instances') = Len(instances) + 1

\* C14: constructing an instance calls init once for each entry of the list
\* of extensions of its class, in the order of the list, each with the
\* keyword arguments of the construction; and the list is in the order of
\* registration, extend putting the extension last.
C14_EveryExtensionInitialisedInOrder ==
    [][/\ Constructs =>
            LET a == instances'[Len(instances')]
            IN  /\ SubSeq(instances', 1, Len(instances)) = instances
                /\ Len(a.inits) = Len(extensions)
                /\ \A i \in 1..Len(extensions) :
                      /\ a.inits[i].extension = extensions[i]
                      /\ a.inits[i].kwargs = a.kwargs
       /\ extensions' # extensions =>
            \E e \in UserExtensions : extensions' = Append(extensions, e)]_vars

\* ext_y then ext_x were registered before an instance was constructed with
\* HSTS off: the five built-in extensions, then ext_y, then ext_x were
\* initialised.
C14_Witness ==
    /\ last.op = "construct"
    /\ LET a == instances[last.app]
       IN  /\ a.kwargs.enable_hsts = Absent
           /\ [i \in 1..Len(a.inits) |-> a.inits[i].extension]
                 = builtin_extensions \o <<"ext_y", "ext_x">>
           /\ \A i \in 1..Len(a.inits) : a.inits[i].kwargs = a.kwargs

\* The templates_dir the instance was constructed with
ConstructedWith(app) ==
    AbsPath(Get(instances[app].kwargs, "templates_dir", <<"templates">>))

\* C20: the templates_dir property is on the class: every instance has it
\* once an instance has been constructed; a construction sets the shared
\* extension up anew for its own templates_dir; a write through any instance
\* writes the state of the shared extension, and a read through any instance
\* returns that state as last initialised or written, whatever templates_dir
\* the instance was constructed with.
C20_TemplatesDirIsSharedState ==
    [][/\ \A i \in 1..Len(instances') :
             Mro(instances'[i].cls) \cap aliased' # {}
       /\ Constructs =>
             templates' =
                [api |-> Len(instances'),
                 searchpath |->
                    <<AbsPath(Get(instances'[Len(instances')].kwargs,
                                  "templates_dir", <<"templates">>))>>]
       /\ last'.op = "write_templates_dir" =>
             /\ templates'.searchpath = <<AbsPath(last'.value)>>
             /\ UNCHANGED <<instances, aliased>>
       /\ last'.op = "read_templates_dir" =>
             /\ last'.raised = NoExc
             /\ last'.value = templates.searchpath[1]
             /\ UNCHANGED <<templates, instances, aliased>>]_vars

\* The first instance was constructed with the default 'templates', a later
\* one with 'tpl': reading templates_dir on the first gives the directory of
\* the later one.
C20_Witness ==
    /\ last.op = "read_templates_dir"
    /\ last.app = 1
    /\ Len(instances) >= 2
    /\ ConstructedWith(1) = <<"/", "cwd", "templates">>
    /\ last.value = <<"/", "cwd", "tpl">>
    /\ templates.api # 1

(***************************************************************************)
(* Properties of the order within a route call                             *)
(***************************************************************************)
\* The events of the request are those of its callables taken one after the
\* other in the order before-hooks (as registered), view, after-hooks: the
\* k-th callable begins only when the one before it has returned, and
\* nothing begins after one has raised.
Sequential(req) ==
    /\ Len(req.log) <= 2 * Len(req.plan)
    /\ \A i \in 1..Len(req.log) :
          LET c == req.plan[(i + 1) \div 2]
          IN  /\ req.log[i].phase = c.phase
              /\ req.log[i].n = c.n
              /\ i % 2 = 1 => req.log[i].ev = "begin"
              /\ i % 2 = 0 => req.log[i].ev \in {"end", "raise"}
              /\ req.log[i].ev = "raise" => i = Len(req.log)

\* The callables come as all before-hooks in the order 1, 2, ..., the view,
\* all after-hooks in the order 1, 2, ...
WellOrdered(plan) ==
    \A i, j \in 1..Len(plan) :
        i < j => \/ plan[i].phase = "before" /\ plan[j].phase # "before"
                 \/ plan[i].phase = "handler" /\ plan[j].phase = "after"
                 \/ plan[i].phase = plan[j].phase /\ plan[i].n < plan[j].n

\* C15: within each request the route runs every before-hook in registration
\* order, then the view, then every after-hook, one at a time: none begins
\* before the previous one has finished, whatever the other requests in
\* flight do in between.
C15_PhasesRunInSequence ==
    \A r \in 1..Len(inflight) :
        WellOrdered(inflight[r].plan) /\ Sequential(inflight[r])

\* The second request has run its two before-hooks, its view and its
\* after-hook to the end while the first is suspended in its view, its one
\* before-hook done.
C15_Witness ==
    /\ Len(inflight) >= 2
    /\ inflight[2].plan = Plan(2, 1)
    /\ Len(inflight[2].log) = 8
    /\ ~HasRaised(inflight[2])
    /\ inflight[1].plan = Plan(1, 2)
    /\ Len(inflight[1].log) = 3

(***************************************************************************)
(* Properties of the registration of extensions on the classes             *)
(***************************************************************************)
\* C21: extend called on a subclass of API puts the extension last in the
\* list run for the instances of that subclass, and leaves unchanged the
\* list run when an instance of the parent class or of a sibling subclass
\* is constructed.
C21_ExtendIsScopedToItsClass ==
    [][\A cls \in Classes \ {"API"} :
          (last'.op = "extend" /\ last'.cls = cls) =>
             /\ ExtensionsOf(cls)' = Append(ExtensionsOf(cls), last'.value[1])
             /\ \A other \in Classes \ {cls} :
                   ExtensionsOf(other)' = ExtensionsOf(other)]_vars

(***************************************************************************)
(* Properties of the name index against the route table                    *)
(***************************************************************************)
\* C22: every route reachable through the name index is a route the route
\* table currently holds, so that url_for never resolves a name to a route
\* that was replaced.
C22_NamedRoutesAreHeld ==
    \A n \in DOMAIN named_routes :
        \E i \in 1..Len(routes) : routes[i].value = named_routes[n]

(***************************************************************************)
(* Properties of the position of a pattern registered again                *)
(***************************************************************************)
\* The patterns of a route table in lookup order
KeyOrder(table) == [i \in 1..Len(table) |-> table[i].key]

\* C23: registering again a pattern the table holds replaces its route and
\* leaves the lookup order of the patterns as it was, the pattern keeping
\* the position of its first registration; and a request runs the route
\* held at the earliest matching position, also when that route is more
\* recent than the routes of the matching patterns after it.
C23_ReplacedRouteKeepsPosition ==
    [][/\ (routes' # routes /\ Len(routes') = Len(routes)) =>
             /\ KeyOrder(routes') = KeyOrder(routes)
             /\ \E i \in 1..Len(routes) :
                   /\ routes'[i].value.id > routes[i].value.id
                   /\ \A j \in 1..Len(routes) \ {i} : routes'[j] = routes[j]
       /\ Len(routes') # Len(routes) =>
             /\ Len(routes') = Len(routes) + 1
             /\ SubSeq(routes', 1, Len(routes)) = routes
             /\ routes'[Len(routes')].key \notin Keys(routes)
       /\ (last'.op = "call" /\ last'.route # NoRoute.id) =>
             \E i \in 1..Len(routes') :
                 /\ Match(routes'[i].key, last'.path).matched
                 /\ \A j \in 1..(i - 1) :
                       ~Match(routes'[j].key, last'.path).matched
                 /\ last'.route = routes'[i].value.id]_vars

\* The catch-all pattern was registered, then "/a", then the catch-all
\* again: a request of "/a" ran the third route, held at the first position.
C23_Witness ==
    /\ last.op = "call"
    /\ Len(routes) = 2
    /\ routes[1].key = PatPath /\ routes[1].value.id = 3
    /\ routes[2].key = PatA /\ routes[2].value.id = 2
    /\ Match(PatA, last.path).matched
    /\ last.route = 3
    /\ "route" \in {last.trace[i] : i \in 1..Len(last.trace)}

====
